---- MODULE Spec2Model ----
(***************************************************************************)
(* Model of agent/python/audit_agent.py: the per-site grant / audit /      *)
(* analyze orchestration of main(), the subprocess wrapper run(), and the  *)
(* metrics normalisation, risk classification and report composition of    *)
(* analyze().  Strings are sequences of one-character strings.             *)
(***************************************************************************)
EXTENDS Integers, Sequences, FiniteSets, TLC

\* ------------------------------------------------------------------ bounds
MaxRows == 2        \* rows of the --csv file
MaxExtra == 1       \* extra small counts 1..MaxExtra offered to every numeric metric

\* ------------------------------------------------------- character strings
Letters == {"a", "b", "c", "e", "h", "i", "m", "n", "o", "p", "r", "s", "t", "x"}

\* [a-zA-Z0-9-] of derive_admin_url's tenant group
IsTenantChar(c) == c \in Letters \cup {"-"}

\* [a-zA-Z0-9._-] of the directory-name substitution
IsSafeChar(c) == c \in Letters \cup {".", "_", "-"}

IsSpace(c) == c = " "

StartsWith(s, p) == Len(s) >= Len(p) /\ SubSeq(s, 1, Len(p)) = p

Drop(s, n) == SubSeq(s, n + 1, Len(s))

RECURSIVE LStrip(_, _)
LStrip(s, c) == IF s # <<>> /\ Head(s) = c THEN LStrip(Tail(s), c) ELSE s

RECURSIVE RStrip(_, _)
RStrip(s, c) ==
  IF s # <<>> /\ s[Len(s)] = c THEN RStrip(SubSeq(s, 1, Len(s) - 1), c) ELSE s

\* str.strip(c) / str.strip()
Strip(s, c) == RStrip(LStrip(s, c), c)

\* number of leading characters of s in the tenant class
RECURSIVE TenantRun(_)
TenantRun(s) == IF s # <<>> /\ IsTenantChar(Head(s)) THEN 1 + TenantRun(Tail(s)) ELSE 0

\* number of leading characters of s outside the safe class
RECURSIVE UnsafeRun(_)
UnsafeRun(s) == IF s # <<>> /\ ~IsSafeChar(Head(s)) THEN 1 + UnsafeRun(Tail(s)) ELSE 0

Https == <<"h", "t", "t", "p", "s", ":", "/", "/">>
SharepointCom == <<".", "s", "h", "a", "r", "e", "p", "o", "i", "n", "t", ".", "c", "o", "m", "/">>

\* re.match(r"https://([a-zA-Z0-9-]+)\.sharepoint\.com/", site_url) succeeds
UrlMatches(site_url) ==
  /\ StartsWith(site_url, Https)
  /\ LET rest == Drop(site_url, Len(Https))
         n == TenantRun(rest)
     IN  n >= 1 /\ StartsWith(Drop(rest, n), SharepointCom)

\* derive_admin_url: the admin URL, or <<>> when it raises ValueError
derive_admin_url(site_url) ==
  IF UrlMatches(site_url)
    THEN LET rest == Drop(site_url, Len(Https))
         IN  Https \o SubSeq(rest, 1, TenantRun(rest))
               \o <<"-", "a", "d", "m", "i", "n">> \o SubSeq(SharepointCom, 1, Len(SharepointCom) - 1)
    ELSE <<>>

\* the substitution without the "+": every unsafe character -> one "_"
ReSubPerChar(s) == [k \in 1..Len(s) |-> IF IsSafeChar(s[k]) THEN s[k] ELSE "_"]

\* re.sub(r"[^a-zA-Z0-9._-]+", "_", s): every maximal run of unsafe characters -> one "_"
RECURSIVE ReSub(_)
ReSub(s) ==
  IF s = <<>> THEN <<>>
  ELSE IF IsSafeChar(Head(s)) THEN <<Head(s)>> \o ReSub(Tail(s))
  ELSE <<"_">> \o ReSub(Drop(s, UnsafeRun(s)))

\* safe = re.sub(..., site.strip("/"))
Safe(site) == ReSub(Strip(site, "/"))

\* f"site-{safe}"
SiteDirName(site) == <<"s", "i", "t", "e", "-">> \o Safe(site)

\* ------------------------------------------------------------- JSON values
Absent == [t |-> "absent", v |-> 0]     \* key not in the mapping: .get() gives None
Null == [t |-> "null", v |-> 0]
IntV(n) == [t |-> "int", v |-> n]
BoolV(b) == [t |-> "bool", v |-> IF b THEN 1 ELSE 0]
StrV(n) == [t |-> "str", v |-> n]       \* a JSON string of n characters

\* Python truthiness of a value returned by dict.get
Truthy(x) == x.t \in {"int", "bool", "str"} /\ x.v # 0

\* x or 0
OrZero(x) == IF Truthy(x) THEN x ELSE IntV(0)

MetricKeys == {"itemsWithUniquePermissions", "externalUsers", "webDirectAssignments",
               "orphanedGroups", "anyoneOrEveryoneAtWeb", "externalOwnerPresent"}

NoFields == [k \in MetricKeys |-> Absent]

\* a parsed audit.json: kind "invalid" does not parse, "array" is a non-object top level;
\* metrics.t is "absent" (no key), "null", "list" (not a mapping) or "object"
Doc(kind, mt, fields) == [kind |-> kind, metrics |-> [t |-> mt, f |-> fields]]

InvalidDoc == Doc("invalid", "absent", NoFields)
ArrayDoc == Doc("array", "absent", NoFields)
NoMetricsDoc == Doc("object", "absent", NoFields)
NullMetricsDoc == Doc("object", "null", NoFields)
ListMetricsDoc == Doc("object", "list", NoFields)
EmptyMetricsDoc == Doc("object", "object", NoFields)

\* ---------------------------------------------------------------- analyze
DEFAULT_THRESHOLDS ==
  [critical |-> [anyone_or_everyone |-> TRUE, external_owner |-> TRUE],
   high |-> [direct_web_perms |-> TRUE, unique_items_gt |-> 250],
   medium |-> [external_item_identities_gte |-> 10, group_without_owner |-> TRUE]]

NoCounts ==
  [unique_items |-> IntV(0), external_identities |-> IntV(0),
   direct_web_assignments |-> IntV(0), groups_without_owner |-> IntV(0),
   anyone_or_everyone |-> FALSE, external_owner |-> FALSE]

\* json.loads(...) and data.get("metrics", {}) and the six metrics.get(...) raise
LoadRaises(doc) == doc.kind = "invalid"
MetricsRaises(doc) == doc.kind = "array" \/ doc.metrics.t \in {"null", "list"}

\* metrics = data.get("metrics", {})
MetricsOf(doc) == IF doc.metrics.t = "object" THEN doc.metrics.f ELSE NoFields

\* counts = {...}
Counts(metrics) ==
  [unique_items |-> OrZero(metrics["itemsWithUniquePermissions"]),
   external_identities |-> OrZero(metrics["externalUsers"]),
   direct_web_assignments |-> OrZero(metrics["webDirectAssignments"]),
   groups_without_owner |-> OrZero(metrics["orphanedGroups"]),
   anyone_or_everyone |-> Truthy(metrics["anyoneOrEveryoneAtWeb"]),
   external_owner |-> Truthy(metrics["externalOwnerPresent"])]

\* a > / >= between a count and an int threshold raises TypeError for a str
CompareRaises(x) == x.t = "str"

Finding(lvl, rule, arg) == [lvl |-> lvl, rule |-> rule, arg |-> arg]

Rule1(counts, thresholds) ==
  IF thresholds.critical.anyone_or_everyone /\ counts.anyone_or_everyone
    THEN <<Finding("Critical", "anyone_or_everyone", IntV(0))>> ELSE <<>>

Rule2(counts, thresholds) ==
  IF thresholds.critical.external_owner /\ counts.external_owner
    THEN <<Finding("Critical", "external_owner", IntV(0))>> ELSE <<>>

Rule3(counts, thresholds) ==
  IF thresholds.high.direct_web_perms /\ Truthy(counts.direct_web_assignments)
    THEN <<Finding("High", "direct_web_assignments", counts.direct_web_assignments)>> ELSE <<>>

\* the unique-items limit compared with >=
Rule4Inclusive(counts, thresholds) ==
  IF counts.unique_items.v >= thresholds.high.unique_items_gt
    THEN <<Finding("High", "unique_items", counts.unique_items)>> ELSE <<>>

Rule4(counts, thresholds) ==
  IF counts.unique_items.v > thresholds.high.unique_items_gt
    THEN <<Finding("High", "unique_items", counts.unique_items)>> ELSE <<>>

\* the external-identities minimum compared with >
Rule5Strict(counts, thresholds) ==
  IF counts.external_identities.v > thresholds.medium.external_item_identities_gte
    THEN <<Finding("Medium", "external_identities", counts.external_identities)>> ELSE <<>>

Rule5(counts, thresholds) ==
  IF counts.external_identities.v >= thresholds.medium.external_item_identities_gte
    THEN <<Finding("Medium", "external_identities", counts.external_identities)>> ELSE <<>>

Rule6(counts, thresholds) ==
  IF thresholds.medium.group_without_owner /\ Truthy(counts.groups_without_owner)
    THEN <<Finding("Medium", "groups_without_owner", counts.groups_without_owner)>> ELSE <<>>

ClassifyRaises(counts) ==
  CompareRaises(counts.unique_items) \/ CompareRaises(counts.external_identities)

\* the findings sorted by severity, Medium first
FindingsMediumFirst(counts, thresholds) ==
  Rule5(counts, thresholds) \o Rule6(counts, thresholds) \o Rule3(counts, thresholds)
    \o Rule4(counts, thresholds) \o Rule1(counts, thresholds) \o Rule2(counts, thresholds)

\* findings = [] followed by the six appends
Findings(counts, thresholds) ==
  Rule1(counts, thresholds) \o Rule2(counts, thresholds) \o Rule3(counts, thresholds)
    \o Rule4(counts, thresholds) \o Rule5(counts, thresholds) \o Rule6(counts, thresholds)

\* the lines appended under "## Risk Ratings"
NoRisksLine == [lvl |-> "none", rule |-> "No risks met the configured thresholds.", arg |-> IntV(0)]

\* the "no risks" line appended unconditionally
RiskLinesAlways(findings) == findings \o <<NoRisksLine>>

RiskLines(findings) == IF findings # <<>> THEN findings ELSE <<NoRisksLine>>

\* md: the summary counts and the risk lines (the remaining lines are constant text)
Markdown(counts, findings) == [summary |-> counts, risks |-> RiskLines(findings)]

\* html: markdown.markdown(md) or the escaped <pre> fallback, around the same md
Html(md, markdown_ok) == [body |-> IF markdown_ok THEN "markdown" ELSE "pre", md |-> md]

NoMd == Markdown(NoCounts, <<>>)

\* analyze(json_path, thresholds, ...): status "ok" with (md, html), or the raise site
analyze(doc, thresholds, markdown_ok) ==
  IF LoadRaises(doc) THEN
    [status |-> "raised", at |-> "loads", counts |-> NoCounts, findings |-> <<>>,
     md |-> NoMd, html |-> Html(NoMd, FALSE)]
  ELSE IF MetricsRaises(doc) THEN
    [status |-> "raised", at |-> "metrics", counts |-> NoCounts, findings |-> <<>>,
     md |-> NoMd, html |-> Html(NoMd, FALSE)]
  ELSE LET counts == Counts(MetricsOf(doc)) IN
    IF ClassifyRaises(counts) THEN
      [status |-> "raised", at |-> "classify", counts |-> counts, findings |-> <<>>,
       md |-> NoMd, html |-> Html(NoMd, FALSE)]
    ELSE LET findings == Findings(counts, thresholds)
             md == Markdown(counts, findings)
         IN  [status |-> "ok", at |-> "return", counts |-> counts, findings |-> findings,
              md |-> md, html |-> Html(md, markdown_ok)]

\* ------------------------------------------------------------------ inputs
SiteA == Https \o <<"t">> \o SharepointCom \o <<"a">>                  \* https://t.sharepoint.com/a
SiteASlash == SiteA \o <<"/">>                                         \* https://t.sharepoint.com/a/
SiteASpaceB == SiteA \o <<" ", "b">>                                   \* https://t.sharepoint.com/a b
SiteAUnderB == SiteA \o <<"_", "b">>                                   \* https://t.sharepoint.com/a_b
SiteBad == <<"x">>                                                     \* not a SharePoint URL

\* a csv row's "SiteUrl" cell: None when the column is missing, else its text
Cell(s) == [none |-> FALSE, s |-> s]
Missing == [none |-> TRUE, s |-> <<>>]
CsvCells == {Missing, Cell(<<" ">>), Cell(SiteA), Cell(SiteASpaceB), Cell(SiteAUnderB), Cell(SiteBad)}
SiteUrlArgs == {<<>>, SiteA, SiteASlash, SiteBad}

RECURSIVE SeqsUpTo(_, _)
SeqsUpTo(S, n) ==
  IF n = 0 THEN {<<>>}
  ELSE LET shorter == SeqsUpTo(S, n - 1)
       IN  shorter \cup {Append(q, x) : q \in {r \in shorter : Len(r) = n - 1}, x \in S}

\* args after parse_args: exactly one of --site-url / --csv is given
ArgsSet ==
  {[mode |-> "site_url", site_url |-> u, readable |-> TRUE, rows |-> <<>>] : u \in SiteUrlArgs}
  \cup {[mode |-> "csv", site_url |-> <<>>, readable |-> TRUE, rows |-> r] : r \in SeqsUpTo(CsvCells, MaxRows)}
  \cup {[mode |-> "csv", site_url |-> <<>>, readable |-> FALSE, rows |-> <<>>]}

\* a document with the given unique-items count and nothing else
UniqueDoc(n) ==
  Doc("object", "object", [NoFields EXCEPT !["itemsWithUniquePermissions"] = IntV(n)])

\* what the external audit script may leave in audit.json in an orchestrated run
AuditOutputs == {InvalidDoc, NullMetricsDoc, UniqueDoc(300)}

\* ------------------------------------------------------------------- state
VARIABLES
  pfx_pass,      \* os.environ.get(args.pfx_pass_env) is a non-empty string
  args,          \* the parsed command line
  markdown_ok,   \* "import markdown" succeeds in this installation
  pc,            \* position of main()
  exit_status,   \* process exit status, NotExited while running
  sites,         \* the resolved site list
  idx,           \* index of the for-loop's current site
  fs,            \* site directories under run_dir: name -> files
  arts,          \* directory of arts["json"]
  stage,         \* per list entry: the per-site state machine
  invoked,       \* per list entry: how often each stage was invoked
  children,      \* external processes started and not yet exited
  analysis,      \* the last analyze() call: its arguments and result
  reported       \* "Run complete -> run_dir" was printed

vars == <<pfx_pass, args, markdown_ok, pc, exit_status, sites, idx, fs, arts, stage,
          invoked, children, analysis, reported>>

NotExited == 0 - 1

NoFile == [state |-> "absent", writer |-> 0, doc |-> InvalidDoc, src |-> 0]
AuditFile(i, doc) == [state |-> "complete", writer |-> i, doc |-> doc, src |-> i]
ReportFile(st, i, src) == [state |-> st, writer |-> i, doc |-> InvalidDoc, src |-> src]
EmptyDir == [audit |-> NoFile, md |-> NoFile, html |-> NoFile]

NoAnalysis ==
  [called |-> FALSE, doc |-> InvalidDoc, thresholds |-> DEFAULT_THRESHOLDS,
   out |-> analyze(InvalidDoc, DEFAULT_THRESHOLDS, FALSE)]

NoInvocations == [grant |-> 0, audit |-> 0, analyze |-> 0]

InitCommon ==
  /\ pc = "start"
  /\ exit_status = NotExited
  /\ sites = <<>>
  /\ idx = 0
  /\ fs = <<>>
  /\ arts = <<>>
  /\ stage = <<>>
  /\ invoked = <<>>
  /\ children = {}
  /\ analysis = NoAnalysis
  /\ reported = FALSE

Init ==
  /\ pfx_pass \in BOOLEAN
  /\ args \in ArgsSet
  /\ markdown_ok \in BOOLEAN
  /\ InitCommon

\* ------------------------------------------------------------- main(): setup
\* sys.exit(<message>) and an uncaught exception both end the process with status 1
Exit(where) == pc' = where /\ exit_status' = 1

\* the password check is skipped
CheckPasswordSkipped ==
  /\ pc = "start"
  /\ pc' = "setup"
  /\ UNCHANGED <<pfx_pass, args, markdown_ok, exit_status, sites, idx, fs, arts, stage,
                 invoked, children, analysis, reported>>

\* lines 164-165
CheckPassword ==
  /\ pc = "start"
  /\ IF ~pfx_pass THEN Exit("exited") ELSE pc' = "setup" /\ UNCHANGED exit_status
  /\ UNCHANGED <<pfx_pass, args, markdown_ok, sites, idx, fs, arts, stage, invoked,
                 children, analysis, reported>>

\* lines 167-168: out_root.mkdir, RunContext.create; either mkdir may raise OSError
Setup ==
  /\ pc = "setup"
  /\ \/ pc' = "collect" /\ UNCHANGED exit_status
     \/ Exit("crashed")
  /\ UNCHANGED <<pfx_pass, args, markdown_ok, sites, idx, fs, arts, stage, invoked,
                 children, analysis, reported>>

\* the csv loop: rows whose cell is truthy contribute cell.strip()
RECURSIVE CsvSites(_)
CsvSites(rows) ==
  IF rows = <<>> THEN <<>>
  ELSE IF ~Head(rows).none /\ Head(rows).s # <<>>
    THEN <<Strip(Head(rows).s, " ")>> \o CsvSites(Tail(rows))
    ELSE CsvSites(Tail(rows))

\* lines 171-178
CollectSites ==
  /\ pc = "collect"
  /\ IF args.mode = "site_url" /\ args.site_url # <<>> THEN
       /\ sites' = <<args.site_url>>
       /\ pc' = "loop" /\ idx' = 1 /\ UNCHANGED exit_status
     ELSE IF args.mode = "site_url" \/ ~args.readable THEN
       \* open(args.csv) raises: csv is None, or the file cannot be opened
       /\ Exit("crashed") /\ UNCHANGED <<sites, idx>>
     ELSE
       /\ sites' = CsvSites(args.rows)
       /\ IF sites' = <<>> THEN Exit("exited") /\ UNCHANGED idx
          ELSE pc' = "loop" /\ idx' = 1 /\ UNCHANGED exit_status
  /\ stage' = [i \in 1..Len(sites') |-> "pending"]
  /\ invoked' = [i \in 1..Len(sites') |-> NoInvocations]
  /\ UNCHANGED <<pfx_pass, args, markdown_ok, fs, arts, children, analysis, reported>>

\* -------------------------------------------------------- main(): the loop
site == sites[idx]
site_dir == SiteDirName(sites[idx])

Waiting == pc \in {"grant_wait", "audit_wait"}

Child(i, kind) == [site |-> i, kind |-> kind]

\* the except clause retries the same site instead of continuing
StageFailsRetries(name) ==
  /\ stage' = [stage EXCEPT ![idx] = name]
  /\ pc' = "loop"
  /\ idx' = idx

\* the exception of a stage is not caught and unwinds main()
StageFailsUncaught(name) ==
  /\ stage' = [stage EXCEPT ![idx] = name]
  /\ pc' = "crashed"
  /\ idx' = idx

\* the except clause of a stage: log to stderr and continue with the next site
StageFails(name) ==
  /\ stage' = [stage EXCEPT ![idx] = name]
  /\ pc' = "loop"
  /\ idx' = idx + 1

CountInvocation(st) == invoked' = [invoked EXCEPT ![idx][st] = @ + 1]

\* lines 180-182: next site of the list; site_dir.mkdir(parents=True, exist_ok=True),
\* which is outside every try block
SiteMkdir ==
  /\ pc = "loop" /\ idx <= Len(sites)
  /\ \/ /\ fs' = [d \in DOMAIN fs \cup {site_dir} |-> IF d \in DOMAIN fs THEN fs[d] ELSE EmptyDir]
        /\ pc' = "grant"
        /\ UNCHANGED exit_status
     \/ Exit("crashed") /\ UNCHANGED fs
  /\ UNCHANGED <<pfx_pass, args, markdown_ok, sites, idx, arts, stage, invoked, children,
                 analysis, reported>>

\* line 205, after the loop is exhausted
RunComplete ==
  /\ pc = "loop" /\ idx > Len(sites)
  /\ reported' = TRUE
  /\ pc' = "done"
  /\ exit_status' = 0
  /\ UNCHANGED <<pfx_pass, args, markdown_ok, sites, idx, fs, arts, stage, invoked,
                 children, analysis>>

\* lines 184-186, 47-64, 19-20: derive_admin_url may raise, Popen may raise, else the
\* PowerShell child is started and communicate() is entered without a timeout
GrantInvoke ==
  /\ pc = "grant"
  /\ CountInvocation("grant")
  /\ IF derive_admin_url(site) = <<>> THEN
       StageFails("failed-at-grant") /\ UNCHANGED children
     ELSE
       \/ StageFails("failed-at-grant") /\ UNCHANGED children
       \/ /\ children' = children \cup {Child(idx, "grant")}
          /\ pc' = "grant_wait"
          /\ UNCHANGED <<stage, idx>>
  /\ UNCHANGED <<pfx_pass, args, markdown_ok, exit_status, sites, fs, arts, analysis, reported>>

\* the except clause of the grant lacks its "continue"
GrantReturnFallsThrough ==
  /\ pc = "grant_wait"
  /\ children' = children \ {Child(idx, "grant")}
  /\ \/ stage' = [stage EXCEPT ![idx] = "granted"]
     \/ stage' = [stage EXCEPT ![idx] = "failed-at-grant"]
  /\ pc' = "audit"
  /\ UNCHANGED <<pfx_pass, args, markdown_ok, exit_status, sites, idx, fs, arts, invoked,
                 analysis, reported>>

\* lines 21-24 under grant_sites_selected, 187-188: the child exits with some return code
GrantReturn ==
  /\ pc = "grant_wait"
  /\ children' = children \ {Child(idx, "grant")}
  /\ \/ /\ stage' = [stage EXCEPT ![idx] = "granted"]
        /\ pc' = "audit"
        /\ UNCHANGED idx
     \/ StageFails("failed-at-grant")
  /\ UNCHANGED <<pfx_pass, args, markdown_ok, exit_status, sites, fs, arts, invoked,
                 analysis, reported>>

\* lines 190-193, 66-81, 19-20: Popen may raise, else the audit child is started and
\* communicate(timeout=time_budget_minutes*60) is entered
AuditInvoke ==
  /\ pc = "audit"
  /\ CountInvocation("audit")
  /\ \/ StageFails("failed-at-audit") /\ UNCHANGED children
     \/ /\ children' = children \cup {Child(idx, "audit")}
        /\ pc' = "audit_wait"
        /\ UNCHANGED <<stage, idx>>
  /\ UNCHANGED <<pfx_pass, args, markdown_ok, exit_status, sites, fs, arts, analysis, reported>>

WriteAudit(dir, i, doc) == [fs EXCEPT ![dir].audit = AuditFile(i, doc)]

\* TimeoutExpired is swallowed inside run_audit_script, which returns its result
AuditReturnTimeoutIgnored ==
  /\ pc = "audit_wait"
  /\ \/ /\ children' = children \ {Child(idx, "audit")}
        /\ \/ \E doc \in AuditOutputs : fs' = WriteAudit(site_dir, idx, doc)
           \/ UNCHANGED fs
        /\ arts' = site_dir
        /\ stage' = [stage EXCEPT ![idx] = "audited"]
        /\ pc' = "analyze"
        /\ UNCHANGED idx
     \/ /\ children' = children \ {Child(idx, "audit")}
        /\ StageFails("failed-at-audit")
        /\ UNCHANGED <<fs, arts>>
     \/ /\ arts' = site_dir
        /\ stage' = [stage EXCEPT ![idx] = "audited"]
        /\ pc' = "analyze"
        /\ UNCHANGED <<children, fs, idx>>
  /\ UNCHANGED <<pfx_pass, args, markdown_ok, exit_status, sites, invoked, analysis, reported>>

\* lines 21-24 under run_audit_script, 82, 194-195: the child exits with return code 0
\* (having written audit.json or not), exits with another code, or the timeout elapses
\* and communicate() raises TimeoutExpired, which leaves the child running
AuditReturn ==
  /\ pc = "audit_wait"
  /\ \/ /\ children' = children \ {Child(idx, "audit")}
        /\ \/ \E doc \in AuditOutputs : fs' = WriteAudit(site_dir, idx, doc)
           \/ UNCHANGED fs
        /\ arts' = site_dir
        /\ stage' = [stage EXCEPT ![idx] = "audited"]
        /\ pc' = "analyze"
        /\ UNCHANGED idx
     \/ /\ children' = children \ {Child(idx, "audit")}
        /\ StageFails("failed-at-audit")
        /\ UNCHANGED <<fs, arts>>
     \/ /\ StageFails("failed-at-audit")
        /\ UNCHANGED <<children, fs, arts>>
  /\ UNCHANGED <<pfx_pass, args, markdown_ok, exit_status, sites, invoked, analysis, reported>>

\* lines 197-199, 92-146, 202-203: read arts["json"], analyze with DEFAULT_THRESHOLDS
AnalyzeStage ==
  /\ pc = "analyze"
  /\ CountInvocation("analyze")
  /\ LET file == fs[arts].audit
         out == analyze(file.doc, DEFAULT_THRESHOLDS, markdown_ok)
     IN  IF file.state = "absent" THEN
           StageFails("failed-at-analyze") /\ UNCHANGED analysis
         ELSE
           /\ analysis' = [called |-> TRUE, doc |-> file.doc,
                           thresholds |-> DEFAULT_THRESHOLDS, out |-> out]
           /\ IF out.status = "raised" THEN StageFails("failed-at-analyze")
              ELSE /\ stage' = [stage EXCEPT ![idx] = "analyzed"]
                   /\ pc' = "write_md"
                   /\ UNCHANGED idx
  /\ UNCHANGED <<pfx_pass, args, markdown_ok, exit_status, sites, fs, arts, children, reported>>

\* write_text: the whole text is written, or it raises OSError either before the file
\* is opened (nothing changes) or after (the file is left truncated)
WriteText(name, ok) ==
  \/ /\ ok
     /\ fs' = [fs EXCEPT ![site_dir][name] = ReportFile("complete", idx, fs[arts].audit.writer)]
  \/ /\ ~ok
     /\ \/ UNCHANGED fs
        \/ fs' = [fs EXCEPT ![site_dir][name] = ReportFile("partial", idx, fs[arts].audit.writer)]

\* report.md is not written before report.html
WriteMdSkipped ==
  /\ pc = "write_md"
  /\ pc' = "write_html"
  /\ UNCHANGED <<pfx_pass, args, markdown_ok, exit_status, sites, idx, fs, arts, stage,
                 invoked, children, analysis, reported>>

\* line 200, 202-203
WriteMd ==
  /\ pc = "write_md"
  /\ \/ WriteText("md", TRUE) /\ pc' = "write_html" /\ UNCHANGED <<stage, idx>>
     \/ WriteText("md", FALSE) /\ StageFails("failed-at-analyze")
  /\ UNCHANGED <<pfx_pass, args, markdown_ok, exit_status, sites, arts, invoked, children,
                 analysis, reported>>

\* the second write_text targets report.md again
WriteHtmlIntoMd ==
  /\ pc = "write_html"
  /\ \/ /\ WriteText("md", TRUE)
        /\ stage' = [stage EXCEPT ![idx] = "done"]
        /\ pc' = "loop"
        /\ idx' = idx + 1
     \/ WriteText("md", FALSE) /\ StageFails("failed-at-analyze")
  /\ UNCHANGED <<pfx_pass, args, markdown_ok, exit_status, sites, arts, invoked, children,
                 analysis, reported>>

\* line 201, 202-203
WriteHtml ==
  /\ pc = "write_html"
  /\ \/ /\ WriteText("html", TRUE)
        /\ stage' = [stage EXCEPT ![idx] = "done"]
        /\ pc' = "loop"
        /\ idx' = idx + 1
     \/ WriteText("html", FALSE) /\ StageFails("failed-at-analyze")
  /\ UNCHANGED <<pfx_pass, args, markdown_ok, exit_status, sites, arts, invoked, children,
                 analysis, reported>>

\* a child that communicate() gave up on exits by itself, after writing audit.json or not
OrphanExit ==
  /\ \E c \in children :
       /\ ~(Waiting /\ c.site = idx)
       /\ children' = children \ {c}
       /\ \/ \E doc \in AuditOutputs : fs' = WriteAudit(SiteDirName(sites[c.site]), c.site, doc)
          \/ UNCHANGED fs
  /\ UNCHANGED <<pfx_pass, args, markdown_ok, pc, exit_status, sites, idx, arts, stage,
                 invoked, analysis, reported>>

Next ==
  \/ CheckPassword
  \/ Setup
  \/ CollectSites
  \/ SiteMkdir
  \/ RunComplete
  \/ GrantInvoke
  \/ GrantReturn
  \/ AuditInvoke
  \/ AuditReturn
  \/ AnalyzeStage
  \/ WriteMd
  \/ WriteHtml
  \/ OrphanExit

Spec == Init /\ [][Next]_vars

\* ------------------------------------------- analyze() as a function of its inputs
ExtraCounts == 1..MaxExtra

Ints(S) == {IntV(n) : n \in S \cup ExtraCounts}

UniqueItemsValues == {Absent, Null, StrV(3)} \cup Ints({0, 250, 251, 300})
ExternalUsersValues == {Absent, Null} \cup Ints({5, 9, 10, 11})
WebDirectValues == {Absent, Null} \cup Ints({0 - 1, 0})
OrphanedGroupsValues == {Absent, Null} \cup Ints({0})
FlagValues == {Absent, Null, BoolV(TRUE), BoolV(FALSE)}

MetricsObjects ==
  {[k \in MetricKeys |->
      CASE k = "itemsWithUniquePermissions" -> u
        [] k = "externalUsers" -> e
        [] k = "webDirectAssignments" -> w
        [] k = "orphanedGroups" -> g
        [] k = "anyoneOrEveryoneAtWeb" -> a
        [] OTHER -> o] :
     u \in UniqueItemsValues, e \in ExternalUsersValues, w \in WebDirectValues,
     g \in OrphanedGroupsValues, a \in FlagValues, o \in FlagValues}

Docs ==
  {InvalidDoc, ArrayDoc, NoMetricsDoc, NullMetricsDoc, ListMetricsDoc}
  \cup {Doc("object", "object", m) : m \in MetricsObjects}

\* threshold configurations: every enable flag either way, the numeric limits at their
\* defaults or at another pair of limits
ThresholdConfigs ==
  {[critical |-> [anyone_or_everyone |-> ca, external_owner |-> ce],
    high |-> [direct_web_perms |-> hd, unique_items_gt |-> n[1]],
    medium |-> [external_item_identities_gte |-> n[2], group_without_owner |-> mg]] :
     ca \in BOOLEAN, ce \in BOOLEAN, hd \in BOOLEAN, mg \in BOOLEAN,
     n \in {<<DEFAULT_THRESHOLDS.high.unique_items_gt,
              DEFAULT_THRESHOLDS.medium.external_item_identities_gte>>, <<0, 11>>}}

InitAnalyze ==
  /\ pfx_pass = TRUE
  /\ args = [mode |-> "site_url", site_url |-> SiteA, readable |-> TRUE, rows |-> <<>>]
  /\ markdown_ok \in BOOLEAN
  /\ InitCommon

\* one call analyze(json_path, thresholds, ...) on an arbitrary document and configuration
AnalyzeCall ==
  /\ ~analysis.called
  /\ \E doc \in Docs, thresholds \in ThresholdConfigs :
       analysis' = [called |-> TRUE, doc |-> doc, thresholds |-> thresholds,
                    out |-> analyze(doc, thresholds, markdown_ok)]
  /\ UNCHANGED <<pfx_pass, args, markdown_ok, pc, exit_status, sites, idx, fs, arts, stage,
                 invoked, children, reported>>

NextAnalyze == AnalyzeCall

SpecAnalyze == InitAnalyze /\ [][NextAnalyze]_vars

\* the orchestrator's own steps always proceed, and communicate(timeout=...) of the audit
\* returns when the child exits or the budget elapses; communicate() of the grant has no
\* timeout, so its return depends on the child alone
FairSpec ==
  /\ Spec
  /\ WF_vars(CheckPassword) /\ WF_vars(Setup) /\ WF_vars(CollectSites)
  /\ WF_vars(SiteMkdir) /\ WF_vars(RunComplete)
  /\ WF_vars(GrantInvoke) /\ WF_vars(AuditInvoke) /\ WF_vars(AuditReturn)
  /\ WF_vars(AnalyzeStage) /\ WF_vars(WriteMd) /\ WF_vars(WriteHtml)

\* ----------------------------------------------------------------- properties
Entries == DOMAIN stage

Failed == {"failed-at-grant", "failed-at-audit", "failed-at-analyze"}

StagePcs == {"grant", "grant_wait", "audit", "audit_wait", "analyze", "write_md", "write_html"}

\* C1: a failure of any stage of a site is caught: the step in which a site's stage fails
\* leaves the run alive at the head of the loop with the next list entry, and no step
\* taken inside a stage ends the process.
StageFailureIsCaught ==
  [][/\ \A i \in Entries :
          (stage[i] \notin Failed /\ stage'[i] \in Failed)
            => (pc' = "loop" /\ idx' = i + 1 /\ exit_status' = NotExited)
     /\ pc \in StagePcs => (exit_status' = NotExited /\ pc' \notin {"crashed", "exited", "done"})
    ]_vars

\* a site after a failed one went through all its stages
LaterSiteProcessedAfterFailure ==
  \E i, j \in Entries : i < j /\ stage[i] \in Failed /\ stage[j] = "done"

Rank(st) ==
  CASE st = "pending" -> 0
    [] st = "granted" -> 1
    [] st = "audited" -> 2
    [] st = "analyzed" -> 3
    [] st = "done" -> 4
    [] OTHER -> 5

\* C2: per site the stages are invoked in the order grant, audit, analyze, each only from
\* the state its predecessor's success leaves; a site's state never moves backwards; a
\* failed site is never touched again; a step changes the state of the current site only.
StagesStrictlySequential ==
  [][\A i \in Entries :
       /\ invoked'[i].grant > invoked[i].grant => stage[i] = "pending"
       /\ invoked'[i].audit > invoked[i].audit => stage[i] = "granted"
       /\ invoked'[i].analyze > invoked[i].analyze => stage[i] = "audited"
       /\ stage'[i] = "granted" /\ stage[i] # "granted" => invoked[i].grant = 1
       /\ stage'[i] = "audited" /\ stage[i] # "audited" => invoked[i].audit = 1
       /\ Rank(stage'[i]) >= Rank(stage[i])
       /\ stage[i] \in Failed => (stage'[i] = stage[i] /\ invoked'[i] = invoked[i])
       /\ i # idx => (stage'[i] = stage[i] /\ invoked'[i] = invoked[i])
    ]_vars

\* one site stopped at grant with nothing else invoked, another ran all three stages
GrantFailureShortCircuits ==
  \E i, j \in Entries :
    /\ stage[i] = "failed-at-grant"
    /\ invoked[i] = [grant |-> 1, audit |-> 0, analyze |-> 0]
    /\ stage[j] = "done"
    /\ invoked[j] = [grant |-> 1, audit |-> 1, analyze |-> 1]

DirOf(i) == SiteDirName(sites[i])

AuditSucceeded(j) == stage[j] \in {"audited", "analyzed", "done", "failed-at-analyze"}

ReportIn(dir) == fs[dir].md.state # "absent" \/ fs[dir].html.state # "absent"

CompleteReportIn(dir) == fs[dir].md.state = "complete" /\ fs[dir].html.state = "complete"

WrittenBy(file, i) == file.state # "absent" /\ file.writer = i

RunReachesTerminalStep == (pc = "loop") ~> (reported \/ pc = "crashed")

NoSiteWork ==
  /\ DOMAIN fs = {}
  /\ children = {}
  /\ \A i \in Entries : invoked[i] = NoInvocations

\* C5: without a password, and with an empty resolved site list, the process exits with
\* status 1 without any site directory, grant, audit or analyze.
FatalBeforeAnySiteWork ==
  /\ ~pfx_pass => (pc \in {"start", "exited"} /\ NoSiteWork)
  /\ (pc \notin {"start", "setup", "collect"} /\ sites = <<>>)
       => (pc \in {"exited", "crashed"} /\ NoSiteWork)
  /\ pc \in {"exited", "crashed"} => exit_status = 1

\* the process exited on a csv file with rows but no usable entry
ExitedOnEmptySiteList ==
  pc = "exited" /\ pfx_pass /\ args.rows # <<>> /\ sites = <<>> /\ exit_status = 1

\* --------------------------------------------------- properties of analyze()
Out == analysis.out

Returned == analysis.called /\ Out.status = "ok"

\* C6: the normalisation in analyze never fails: for an audit.json that is a JSON object
\* whose metrics section is missing, null or a mapping with any fields missing or null,
\* the counts are produced without an exception, and with every field missing they are
\* the all-zero/false record.
NormalizerNeverFails ==
  (analysis.called /\ analysis.doc.kind = "object"
     /\ analysis.doc.metrics.t \in {"absent", "null", "object"})
    => /\ Out.at \notin {"loads", "metrics"}
       /\ analysis.doc.metrics.f = NoFields => Out.counts = NoCounts

FindingsOf(rule) == {k \in 1..Len(Out.findings) : Out.findings[k].rule = rule}

ExampleCounts ==
  [unique_items |-> IntV(300), external_identities |-> IntV(5),
   direct_web_assignments |-> IntV(0), groups_without_owner |-> IntV(0),
   anyone_or_everyone |-> FALSE, external_owner |-> FALSE]

\* C7: the High unique-items finding occurs exactly once when unique_items is above
\* high.unique_items_gt and not at all when it is equal or below; the example counts
\* (300 unique items, 5 external identities) under the defaults give exactly that finding.
UniqueItemsStrictlyAbove ==
  Returned =>
    /\ Cardinality(FindingsOf("unique_items")) =
         IF Out.counts.unique_items.v > analysis.thresholds.high.unique_items_gt THEN 1 ELSE 0
    /\ \A k \in FindingsOf("unique_items") :
         Out.findings[k] = Finding("High", "unique_items", Out.counts.unique_items)
    /\ (analysis.thresholds = DEFAULT_THRESHOLDS /\ Out.counts = ExampleCounts)
         => Out.findings = <<Finding("High", "unique_items", IntV(300))>>

\* the example: defaults, 300 unique items, 5 external identities, one finding
ExampleGivesOneHighFinding ==
  /\ Returned
  /\ analysis.thresholds = DEFAULT_THRESHOLDS
  /\ Out.counts = ExampleCounts
  /\ Len(Out.findings) = 1

\* C8: the Medium external-identities finding is present when external_identities is at
\* or above medium.external_item_identities_gte and absent when it is below.
ExternalIdentitiesInclusive ==
  Returned =>
    /\ Cardinality(FindingsOf("external_identities")) =
         IF Out.counts.external_identities.v >=
              analysis.thresholds.medium.external_item_identities_gte THEN 1 ELSE 0
    /\ \A k \in FindingsOf("external_identities") :
         Out.findings[k] = Finding("Medium", "external_identities", Out.counts.external_identities)

\* external_identities exactly at the configured minimum, finding present
ExternalAtMinimumReported ==
  /\ Returned
  /\ Out.counts.external_identities.v = analysis.thresholds.medium.external_item_identities_gte
  /\ FindingsOf("external_identities") # {}

RuleOrder ==
  <<"anyone_or_everyone", "external_owner", "direct_web_assignments", "unique_items",
    "external_identities", "groups_without_owner">>

RuleIndex(rule) == CHOOSE n \in 1..Len(RuleOrder) : RuleOrder[n] = rule

\* C9: the findings follow the fixed rule order: their rule numbers strictly increase (so
\* each rule contributes at most once), and the report lists them in the same order.
FindingsInRuleOrder ==
  Returned =>
    /\ \A k \in 1..Len(Out.findings) : Out.findings[k].rule \in {RuleOrder[n] : n \in 1..Len(RuleOrder)}
    /\ \A k \in 1..(Len(Out.findings) - 1) :
         RuleIndex(Out.findings[k].rule) < RuleIndex(Out.findings[k + 1].rule)
    /\ Out.findings # <<>> => Out.md.risks = Out.findings

\* all six rules fired
AllSixRulesFired == Returned /\ Len(Out.findings) = 6

DefaultValues == {Absent, Null, IntV(0), BoolV(FALSE)}

AllDefault(doc) ==
  /\ doc.kind = "object"
  /\ doc.metrics.t \in {"absent", "object"}
  /\ \A k \in MetricKeys : doc.metrics.f[k] \in DefaultValues

HasNoRisksLine == \E k \in 1..Len(Out.md.risks) : Out.md.risks[k] = NoRisksLine

\* C10: an all-default or empty metrics mapping under the default thresholds gives no
\* finding and a findings section that is the "no risks" line; a report carries that line
\* exactly when the findings are empty.
NoFindingsReported ==
  /\ (analysis.called /\ analysis.thresholds = DEFAULT_THRESHOLDS /\ AllDefault(analysis.doc))
       => (Out.status = "ok" /\ Out.findings = <<>> /\ Out.md.risks = <<NoRisksLine>>)
  /\ Returned => (HasNoRisksLine <=> Out.findings = <<>>)

\* metrics present with explicit zero / false / null values only, defaults, no finding
ExplicitZerosGiveNoRisksLine ==
  /\ Returned
  /\ analysis.thresholds = DEFAULT_THRESHOLDS
  /\ analysis.doc.metrics.t = "object"
  /\ analysis.doc.metrics.f["itemsWithUniquePermissions"] = IntV(0)
  /\ analysis.doc.metrics.f["anyoneOrEveryoneAtWeb"] = BoolV(FALSE)
  /\ AllDefault(analysis.doc)
  /\ HasNoRisksLine

\* ------------------------------------------------ properties of the site list
\* the csv loop and the emptiness check of lines 175-178 have run
Resolved ==
  /\ pfx_pass /\ args.mode = "csv" /\ args.readable
  /\ pc \notin {"start", "setup", "collect", "crashed"}

\* a cell that is missing, empty or made of white space only
IsBlank(cell) == cell.none \/ \A k \in 1..Len(cell.s) : IsSpace(cell.s[k])

NonBlankRows == {k \in 1..Len(args.rows) : ~IsBlank(args.rows[k])}

\* C11: of a csv file exactly the rows with a non-blank site entry are processed: the
\* resolved list has one entry per non-blank row and no empty identifier, and a file
\* whose entries are all blank or missing ends in the fatal exit, not in a processed site.
BlankRowsSkipped ==
  Resolved =>
    /\ Len(sites) = Cardinality(NonBlankRows)
    /\ \A i \in 1..Len(sites) : sites[i] # <<>>
    /\ NonBlankRows = {} => (pc = "exited" /\ NoSiteWork)

\* C12: at most one external invocation is in progress, and it is the one the current
\* site's stage is waiting for: none outlives the stage that started it.
OneInvocationAtATime ==
  /\ Cardinality(children) <= 1
  /\ \A c \in children : Waiting /\ c.site = idx

\* C13: two different site identifiers of a run have different subdirectories, and every
\* file in a site's subdirectory was written for that site identifier.
SitesOwnTheirDirectories ==
  /\ \A i, j \in Entries : sites[i] # sites[j] => DirOf(i) # DirOf(j)
  /\ \A i \in Entries : DirOf(i) \in DOMAIN fs =>
       \A name \in {"audit", "md", "html"} :
         LET file == fs[DirOf(i)][name]
         IN  file.state # "absent" => (sites[file.writer] = sites[i] /\ sites[file.src] = sites[i])

\* ------------------------------------------- properties of the directory names
\* the entries whose directory creation succeeded
Visited(i) == i < idx \/ (i = idx /\ pc \in StagePcs)

SitePrefix == <<"s", "i", "t", "e", "-">>

PerCharacter(s) == [k \in 1..Len(s) |-> IF IsSafeChar(s[k]) THEN s[k] ELSE "_"]

\* C14 as stated: the directories are exactly 'site-' followed by the visited identifiers
\* with each unsafe character replaced by one underscore, of the identifier's length.
DirNamesReplacePerCharacter ==
  /\ \A i \in Entries : Visited(i) => SitePrefix \o PerCharacter(sites[i]) \in DOMAIN fs
  /\ \A d \in DOMAIN fs :
       \E i \in Entries : Visited(i) /\ Len(d) = Len(SitePrefix) + Len(sites[i])

Positions(s) == [k \in 1..Len(s) |-> k]

\* s without its leading and trailing slashes
Trimmed(s) ==
  LET NotSlash(k) == s[k] # "/"
      inner == SelectSeq(Positions(s), NotSlash)
  IN  IF inner = <<>> THEN <<>> ELSE SubSeq(s, inner[1], inner[Len(inner)])

\* the positions that survive, in order: safe characters and the first character of
\* each unsafe run
KeptPositions(t) ==
  LET Keep(k) == IsSafeChar(t[k]) \/ k = 1 \/ IsSafeChar(t[k - 1])
  IN  SelectSeq(Positions(t), Keep)

RunsReplaced(s) ==
  LET t == Trimmed(s)
      kept == KeptPositions(t)
  IN  [n \in 1..Len(kept) |-> IF IsSafeChar(t[kept[n]]) THEN t[kept[n]] ELSE "_"]

\* every identifier the --site-url argument or a csv cell can put on the list
Identifiers == SiteUrlArgs \cup {Strip(c.s, " ") : c \in CsvCells \ {Missing}}

\* the expected directory name of each identifier
RunsReplacedName == [s \in Identifiers |-> SitePrefix \o RunsReplaced(s)]

\* C14 amended: the directories are exactly 'site-' followed by the visited identifiers
\* without their leading and trailing slashes and with each maximal run of unsafe
\* characters replaced by one underscore; the name is never longer than the identifier.
DirNamesReplaceRuns ==
  /\ \A i \in Entries : sites[i] \in Identifiers
  /\ DOMAIN fs = {RunsReplacedName[sites[i]] : i \in {j \in Entries : Visited(j)}}
  /\ \A i \in Entries : Len(RunsReplacedName[sites[i]]) <= Len(SitePrefix) + Len(sites[i])

\* a directory whose name is shorter than 'site-' plus its identifier
DirNameShorterThanSite ==
  \E i \in Entries :
    /\ Visited(i)
    /\ RunsReplacedName[sites[i]] \in DOMAIN fs
    /\ Len(RunsReplacedName[sites[i]]) < Len(SitePrefix) + Len(sites[i])

\* ------------------------------------------------------ properties of timeouts
\* communicate() of the audit returned although the child is still running
AuditTimedOut == pc = "audit_wait" /\ pc' # "audit_wait" /\ Child(idx, "audit") \in children'

NoReportWrittenBy(i) ==
  \A d \in DOMAIN fs : ~WrittenBy(fs[d].md, i) /\ ~WrittenBy(fs[d].html, i)

\* C15: an audit whose time budget elapses fails that site at audit and nothing else: the
\* run goes on with the next list entry, the other entries and the files are untouched,
\* and a site failed at audit never has analyze invoked nor a report file written.
AuditTimeoutFailsThatSiteOnly ==
  [][/\ AuditTimedOut =>
          /\ stage' = [stage EXCEPT ![idx] = "failed-at-audit"]
          /\ pc' = "loop" /\ idx' = idx + 1
          /\ exit_status' = NotExited
          /\ fs' = fs
     /\ \A i \in Entries :
          stage'[i] = "failed-at-audit" => (invoked'[i].analyze = 0 /\ NoReportWrittenBy(i)')
    ]_vars

\* the audit of one site timed out (its child still runs) and a later site was reported
LaterSiteReportedAfterTimeout ==
  \E i, j \in Entries :
    /\ i < j
    /\ Child(i, "audit") \in children
    /\ stage[i] = "failed-at-audit" /\ invoked[i].analyze = 0
    /\ stage[j] = "done"

\* --------------------------------------------------- properties of the counts
Normalized == analysis.called /\ Out.at \notin {"loads", "metrics"}

NumericCounts ==
  {Out.counts.unique_items, Out.counts.external_identities,
   Out.counts.direct_web_assignments, Out.counts.groups_without_owner}

\* C16: whenever the counts are produced, the four numeric counts are integers >= 0 and
\* the two flags are booleans.
CountsAreNonNegativeIntegers ==
  Normalized =>
    /\ \A x \in NumericCounts : x.t = "int" /\ x.v >= 0
    /\ Out.counts.anyone_or_everyone \in BOOLEAN
    /\ Out.counts.external_owner \in BOOLEAN

\* C17: the direct-web-permissions finding is emitted iff high.direct_web_perms is on
\* and direct_web_assignments > 0; the groups-without-owner finding iff
\* medium.group_without_owner is on and groups_without_owner > 0.
FlagGatedRulesFireAboveZero ==
  Returned =>
    /\ FindingsOf("direct_web_assignments") # {}
         <=> (analysis.thresholds.high.direct_web_perms
                /\ Out.counts.direct_web_assignments.v > 0)
    /\ FindingsOf("groups_without_owner") # {}
         <=> (analysis.thresholds.medium.group_without_owner
                /\ Out.counts.groups_without_owner.v > 0)

\* ------------------------------------------------- properties of the report files
\* C18 as stated: at the end of a run only sites that reached done have report files in
\* their subdirectory, and every subdirectory has either both report files or none.
ReportsOnlyAsPairsOfDoneSites ==
  pc = "done" =>
    /\ \A i \in Entries : stage[i] # "done" => ~ReportIn(DirOf(i))
    /\ \A d \in DOMAIN fs : fs[d].md.state = "absent" <=> fs[d].html.state = "absent"

\* C18 amended: a report file is only ever written by the processing of the current site
\* after its grant, audit and analysis succeeded, into that site's subdirectory; a site
\* that fails at grant, at audit or in the analysis itself has written none; report.html is
\* written only after the same processing wrote report.md completely; a site that reaches
\* done has written both completely. (The pair is not atomic: a failure while persisting can
\* leave report.md, or a truncated file, without a complete report.html.)
ReportsWrittenOnlyAfterAnalysis ==
  [][/\ fs' # fs =>
          \A d \in DOMAIN fs : \A name \in {"md", "html"} :
            fs'[d][name] # fs[d][name] =>
              /\ d = site_dir /\ fs'[d][name].writer = idx
              /\ stage[idx] = "analyzed"
              /\ invoked[idx] = [grant |-> 1, audit |-> 1, analyze |-> 1]
              /\ name = "html" => (fs[d].md.state = "complete" /\ fs[d].md.writer = idx)
     /\ stage' # stage =>
          \A i \in Entries :
            /\ (stage'[i] \in Failed /\ stage[i] \notin Failed /\ stage[i] # "analyzed")
                 => NoReportWrittenBy(i)'
            /\ (stage'[i] = "done" /\ stage[i] # "done")
                 => \E d \in DOMAIN fs :
                      /\ CompleteReportIn(d)'
                      /\ fs'[d].md.writer = i /\ fs'[d].html.writer = i
    ]_vars

\* a finished run with a complete report.md but no complete report.html for a site that
\* failed while persisting
PlainReportWithoutHypertext ==
  /\ pc = "done"
  /\ \E i \in Entries :
       /\ stage[i] = "failed-at-analyze"
       /\ fs[DirOf(i)].md.state = "complete" /\ fs[DirOf(i)].md.writer = i
       /\ fs[DirOf(i)].html.state # "complete"

\* ------------------------------------------------------ properties of the loop
Final == Failed \cup {"done"}

\* C19: the list entries are handled in list order, each once: entries before the current
\* one are finished, entries after it are untouched, no stage of an entry is invoked
\* twice, and when the run completes every entry is finished and was worked on.
EntriesInOrderExactlyOnce ==
  /\ \A i \in Entries :
       /\ invoked[i].grant <= 1 /\ invoked[i].audit <= 1 /\ invoked[i].analyze <= 1
       /\ i < idx => (stage[i] \in Final /\ invoked[i].grant = 1)
       /\ i > idx => (stage[i] = "pending" /\ invoked[i] = NoInvocations /\ NoReportWrittenBy(i))
       /\ (i = idx /\ pc = "loop") => (stage[i] = "pending" /\ invoked[i] = NoInvocations)
  /\ pc \in StagePcs \cup {"loop", "done"} => (idx >= 1 /\ idx <= Len(sites) + 1)
  /\ pc = "done" => (idx = Len(sites) + 1 /\ \A i \in Entries : stage[i] \in Final)

\* a completed run over two or more entries, all of them finished
AllEntriesFinished ==
  /\ pc = "done"
  /\ Len(sites) >= 2
  /\ \A i \in Entries : stage[i] \in Final /\ invoked[i].grant = 1

====
